---- MODULE Spec2Model ----
\* A model of quantum-stdlib's Vector<T> (src/src/vector.rs): the wrapped
\* Vec<T>, every public operation with its result value, and a record of the
\* last call so that each operation's contract can be stated over the pair
\* (contents before the call, contents after the call); of the free functions
\* of src/src/math.rs; and of String (src/src/string.rs), as a String that
\* goes through its methods and as single calls of its searching methods.
EXTENDS Integers, Sequences, FiniteSets, TLC

\* ---------------------------------------------------------------- bounds
\* Longest Vector explored (push and insert are not taken beyond it).
MaxLen == 3
\* Element values are 1..NumValues (T is generic; only equality matters).
NumValues == 2
\* Largest capacity hint passed to with_capacity.
MaxCapacity == 5
\* Width of the u64 index type, scaled down.
IndexBits == 6
\* Longest Vector whose push order is recorded.
TrackLen == 2
\* Width of the machine word of math.rs (u64 and i64), scaled down.
WordBits == 5
\* Longest String explored (in bytes).
StrLen == 3

Values == 1..NumValues
U64Max == 2^IndexBits - 1
\* Index arguments tried: everything up to one past the longest Vector, and
\* the largest u64.
Indices == (0..(MaxLen + 1)) \cup {U64Max}
\* Vec<T> arguments tried by from_vec.
Items == UNION {[1..n -> Values] : n \in 0..MaxLen}

\* ------------------------------------------------------- result encoding
NoArg == -1
None == [tag |-> "None"]
Some(x) == [tag |-> "Some", val |-> x]
OkUnit == [tag |-> "Ok"]
Ok(x) == [tag |-> "Ok", val |-> x]
Err(m) == [tag |-> "Err", msg |-> m]
Unit == [tag |-> "()"]
Bool(b) == [tag |-> "bool", val |-> b]
Num(n) == [tag |-> "u64", val |-> n]

\* ------------------------------------------------------------ conversions
\* usize on the targets the crate is built for is as wide as u64.
UsizeBits == IndexBits

\* Mutant: `index as usize` where usize is narrower than u64.
AsUsizeNarrow(index) == index % 4

\* `index as usize`: keeps the low UsizeBits bits.
AsUsize(index) == index % (2^UsizeBits)

DigitChars == <<"0", "1", "2", "3", "4", "5", "6", "7", "8", "9">>

RECURSIVE Decimal(_)
\* Display of an unsigned integer: its decimal digits, most significant first.
Decimal(n) ==
    IF n < 10 THEN <<DigitChars[n + 1]>>
    ELSE Append(Decimal(n \div 10), DigitChars[(n % 10) + 1])

\* format!("Index out of bounds: {} >= {}", index, len), as its four pieces.
FormatGe(index, len) ==
    <<"Index out of bounds: ", Decimal(index), " >= ", Decimal(len)>>

\* format!("Index out of bounds: {} > {}", index, len), as its four pieces.
FormatGt(index, len) ==
    <<"Index out of bounds: ", Decimal(index), " > ", Decimal(len)>>

\* ----------------------------------------------- the wrapped Vec<T> (std)
\* Positions are zero-based in the code and one-based in a TLA+ sequence.
\* Mutant: the new element goes to the front.
VecPushFront(s, x) == <<x>> \o s
VecPush(s, x) == Append(s, x)
\* Mutant: the first element is dropped, not the last.
VecPoppedFirst(s) == SubSeq(s, 2, Len(s))
VecPopped(s) == SubSeq(s, 1, Len(s) - 1)
\* Mutant: the element at idx makes room by moving to the end.
VecInsertDisplace(s, idx, x) ==
    IF idx = Len(s) THEN Append(s, x)
    ELSE Append([s EXCEPT ![idx + 1] = x], s[idx + 1])
VecInsert(s, idx, x) == SubSeq(s, 1, idx) \o <<x>> \o SubSeq(s, idx + 1, Len(s))
\* Mutant: swap_remove, which fills the hole with the last element.
VecSwapRemove(s, idx) ==
    IF idx = Len(s) - 1 THEN SubSeq(s, 1, idx)
    ELSE SubSeq(s, 1, idx) \o <<s[Len(s)]>> \o SubSeq(s, idx + 2, Len(s) - 1)
VecRemove(s, idx) == SubSeq(s, 1, idx) \o SubSeq(s, idx + 2, Len(s))
\* Mutant: a copy from b to a, the other half of the exchange forgotten.
VecSwapHalf(s, a, b) == [s EXCEPT ![a + 1] = s[b + 1]]
VecSwap(s, a, b) == [s EXCEPT ![a + 1] = s[b + 1], ![b + 1] = s[a + 1]]
\* Mutant: the last element stays where it is.
VecReverseButLast(s) ==
    [k \in 1..Len(s) |-> IF k = Len(s) THEN s[k] ELSE s[Len(s) - k]]
VecReverse(s) == [k \in 1..Len(s) |-> s[Len(s) + 1 - k]]
VecGet(s, idx) == IF idx < Len(s) THEN Some(s[idx + 1]) ELSE None

\* ------------------------------------------------- operations of Vector<T>
\* Each operation maps the contents to the contents afterwards and the value
\* returned: [elements |-> ..., res |-> ...].
len(elems) == Len(elems)

is_empty(elems) == elems = <<>>

push(elems, value) == [elements |-> VecPush(elems, value), res |-> Unit]

\* Mutant: a queue's pop, taking the first element.
popFirst(elems) ==
    IF elems = <<>> THEN [elements |-> elems, res |-> None]
    ELSE [elements |-> SubSeq(elems, 2, Len(elems)), res |-> Some(elems[1])]

pop(elems) ==
    IF elems = <<>> THEN [elements |-> elems, res |-> None]
    ELSE [elements |-> VecPopped(elems), res |-> Some(elems[Len(elems)])]

\* Mutant: an index past the end is clamped to the last element.
getClamped(elems, index) ==
    IF AsUsize(index) >= Len(elems) /\ elems # <<>>
    THEN Some(elems[Len(elems)])
    ELSE VecGet(elems, AsUsize(index))

get(elems, index) == VecGet(elems, AsUsize(index))

\* Mutant: the value is inserted at the index instead of replacing the one there.
setInserts(elems, index, value) ==
    LET idx == AsUsize(index) IN
    IF idx < Len(elems)
    THEN [elements |-> VecInsert(elems, idx, value), res |-> OkUnit]
    ELSE [elements |-> elems, res |-> Err(FormatGe(index, Len(elems)))]

set(elems, index, value) ==
    LET idx == AsUsize(index) IN
    IF idx < Len(elems)
    THEN [elements |-> [elems EXCEPT ![idx + 1] = value], res |-> OkUnit]
    ELSE [elements |-> elems, res |-> Err(FormatGe(index, Len(elems)))]

\* Mutant: a failing swap always reports its first index.
swapBlamesFirst(elems, i, j) ==
    LET i_usize == AsUsize(i)
        j_usize == AsUsize(j)
        n == Len(elems)
    IN  IF i_usize >= n \/ j_usize >= n
        THEN [elements |-> elems, res |-> Err(FormatGe(i, n))]
        ELSE [elements |-> VecSwap(elems, i_usize, j_usize), res |-> OkUnit]

swap(elems, i, j) ==
    LET i_usize == AsUsize(i)
        j_usize == AsUsize(j)
        n == Len(elems)
    IN  IF i_usize >= n THEN [elements |-> elems, res |-> Err(FormatGe(i, n))]
        ELSE IF j_usize >= n THEN [elements |-> elems, res |-> Err(FormatGe(j, n))]
        ELSE [elements |-> VecSwap(elems, i_usize, j_usize), res |-> OkUnit]

remove(elems, index) ==
    LET idx == AsUsize(index) IN
    IF idx < Len(elems)
    THEN [elements |-> VecRemove(elems, idx), res |-> Ok(elems[idx + 1])]
    ELSE [elements |-> elems, res |-> Err(FormatGe(index, Len(elems)))]

\* Mutant: the bound check of set and remove, which rejects index = len().
insertStrict(elems, index, value) ==
    LET idx == AsUsize(index) IN
    IF idx < Len(elems)
    THEN [elements |-> VecInsert(elems, idx, value), res |-> OkUnit]
    ELSE [elements |-> elems, res |-> Err(FormatGt(index, Len(elems)))]

\* Mutant: the value lands one slot after the index when there is one.
insertAfter(elems, index, value) ==
    LET idx == AsUsize(index) IN
    IF idx <= Len(elems)
    THEN [elements |-> VecInsert(elems, IF idx < Len(elems) THEN idx + 1 ELSE idx, value),
          res |-> OkUnit]
    ELSE [elements |-> elems, res |-> Err(FormatGt(index, Len(elems)))]

insert(elems, index, value) ==
    LET idx == AsUsize(index) IN
    IF idx <= Len(elems)
    THEN [elements |-> VecInsert(elems, idx, value), res |-> OkUnit]
    ELSE [elements |-> elems, res |-> Err(FormatGt(index, Len(elems)))]

clear(elems) == [elements |-> <<>>, res |-> Unit]

contains(elems, value) == \E k \in 1..Len(elems) : elems[k] = value

reverse(elems) == [elements |-> VecReverse(elems), res |-> Unit]

\* ------------------------------------------------------------------ state
\* elements: the Vec<T> the Vector wraps.
\* capacity: the capacity the Vec is guaranteed to have (a hint, never a cap).
\* last:     the last call: its name, arguments and result, the contents
\*           (prev) and push order (pranks) before it and, for a remove that
\*           directly follows a successful insert at the same index or a
\*           reverse that directly follows a reverse, that earlier call
\*           (undo).
\* ranks:    for each position, the order in which the element there was
\*           pushed among the elements still present (1 = oldest); Untracked
\*           once an element enters other than by push, or the Vector grows
\*           beyond TrackLen. The operations act on it as on elements.
\* lifo:     only push, pop, remove and clear have been applied so far.
\* calc:     a call of one of the free functions of math.rs: its name, its
\*           arguments, the build's overflow checking and, once it has run,
\*           its result; or a call of a method of String (src/src/string.rs);
\*           Idle in the behaviours of a Vector.
\* bytes:    the bytes field of the String at hand; empty in the behaviours
\*           of a Vector and of math.rs.
VARIABLES elements, capacity, last, ranks, lifo, calc, bytes

vars == <<elements, capacity, last, ranks, lifo, calc, bytes>>

Idle == [fn |-> "none"]

Untracked == <<0>>

Call(op, i, j, v, res) ==
    [op |-> op, i |-> i, j |-> j, v |-> v, res |-> res,
     prev |-> elements, pranks |-> ranks, undo |-> None]

Track(r) == IF ranks = Untracked \/ Len(r) > TrackLen THEN Untracked ELSE r

\* The ranks of the remaining elements, renumbered 1..n in the same order.
Renumber(r) ==
    [k \in 1..Len(r) |-> Cardinality({m \in 1..Len(r) : r[m] <= r[k]})]

Max(a, b) == IF a >= b THEN a ELSE b

\* ----------------------------------------------------------- construction
Created(op, n, items) ==
    [op |-> op, i |-> n, j |-> NoArg, v |-> NoArg, res |-> Unit,
     prev |-> items, pranks |-> <<>>, undo |-> None]

new ==
    /\ elements = <<>>
    /\ capacity = 0
    /\ last = Created("new", NoArg, <<>>)
    /\ ranks = <<>>
    /\ lifo = TRUE

with_capacity(n) ==
    /\ elements = <<>>
    /\ capacity = n
    /\ last = Created("with_capacity", n, <<>>)
    /\ ranks = <<>>
    /\ lifo = TRUE

from_vec(items) ==
    /\ elements = items
    /\ capacity = Len(items)
    /\ last = Created("from_vec", NoArg, items)
    /\ ranks = IF items = <<>> THEN <<>> ELSE Untracked
    /\ lifo = FALSE

Init ==
    /\ calc = Idle
    /\ bytes = <<>>
    /\ \/ new
       \/ \E n \in 0..MaxCapacity : with_capacity(n)
       \/ \E items \in Items : from_vec(items)

\* ---------------------------------------------------------------- queries
DoLen ==
    /\ last' = Call("len", NoArg, NoArg, NoArg, Num(len(elements)))
    /\ UNCHANGED <<elements, capacity, ranks, lifo, calc, bytes>>

DoIsEmpty ==
    /\ last' = Call("is_empty", NoArg, NoArg, NoArg, Bool(is_empty(elements)))
    /\ UNCHANGED <<elements, capacity, ranks, lifo, calc, bytes>>

DoGet(index) ==
    /\ last' = Call("get", index, NoArg, NoArg, get(elements, index))
    /\ UNCHANGED <<elements, capacity, ranks, lifo, calc, bytes>>

DoContains(value) ==
    /\ last' = Call("contains", NoArg, NoArg, value, Bool(contains(elements, value)))
    /\ UNCHANGED <<elements, capacity, ranks, lifo, calc, bytes>>

\* -------------------------------------------------------------- mutations
\* push and insert are explored while the result is at most MaxLen long.
DoPush(value) ==
    /\ LET r == push(elements, value) IN
         /\ Len(r.elements) <= MaxLen
         /\ elements' = r.elements
         /\ last' = Call("push", NoArg, NoArg, value, r.res)
         /\ capacity' = Max(capacity, Len(r.elements))
    /\ ranks' = Track(push(ranks, Len(ranks) + 1).elements)
    /\ UNCHANGED <<lifo, calc, bytes>>

DoPop ==
    /\ LET r == pop(elements) IN
         /\ elements' = r.elements
         /\ last' = Call("pop", NoArg, NoArg, NoArg, r.res)
    /\ ranks' = Track(Renumber(pop(ranks).elements))
    /\ UNCHANGED <<capacity, lifo, calc, bytes>>

\* get_mut hands out a reference to the slot; the caller writes `write`
\* through it, or nothing when write = NoArg.
DoGetMut(index, write) ==
    /\ LET slot == get(elements, index) IN
         /\ last' = Call("get_mut", index, NoArg, write, slot)
         /\ IF slot.tag = "Some" /\ write # NoArg
            THEN /\ elements' = [elements EXCEPT ![AsUsize(index) + 1] = write]
                 /\ ranks' = Untracked
                 /\ lifo' = FALSE
            ELSE UNCHANGED <<elements, ranks, lifo>>
    /\ UNCHANGED <<capacity, calc, bytes>>

DoSet(index, value) ==
    /\ LET r == set(elements, index, value) IN
         /\ elements' = r.elements
         /\ last' = Call("set", index, NoArg, value, r.res)
         /\ ranks' = IF r.res.tag = "Ok" THEN Untracked ELSE ranks
    /\ lifo' = FALSE
    /\ UNCHANGED <<capacity, calc, bytes>>

DoSwap(i, j) ==
    /\ LET r == swap(elements, i, j) IN
         /\ elements' = r.elements
         /\ last' = Call("swap", i, j, NoArg, r.res)
    /\ ranks' = Track(swap(ranks, i, j).elements)
    /\ lifo' = FALSE
    /\ UNCHANGED <<capacity, calc, bytes>>

DoRemove(index) ==
    /\ LET r == remove(elements, index) IN
         /\ elements' = r.elements
         /\ last' = [Call("remove", index, NoArg, NoArg, r.res) EXCEPT
                       !.undo = IF /\ last.op = "insert"
                                   /\ last.res.tag = "Ok"
                                   /\ last.i = index
                                THEN [v |-> last.v, prev |-> last.prev]
                                ELSE None]
    /\ ranks' = Track(Renumber(remove(ranks, index).elements))
    /\ UNCHANGED <<capacity, lifo, calc, bytes>>

DoInsert(index, value) ==
    /\ LET r == insert(elements, index, value) IN
         /\ Len(r.elements) <= MaxLen
         /\ elements' = r.elements
         /\ last' = Call("insert", index, NoArg, value, r.res)
         /\ capacity' = Max(capacity, Len(r.elements))
         /\ ranks' = IF r.res.tag = "Ok" THEN Untracked ELSE ranks
    /\ lifo' = FALSE
    /\ UNCHANGED <<calc, bytes>>

DoClear ==
    /\ LET r == clear(elements) IN
         /\ elements' = r.elements
         /\ last' = Call("clear", NoArg, NoArg, NoArg, r.res)
    /\ ranks' = clear(ranks).elements
    /\ UNCHANGED <<capacity, lifo, calc, bytes>>

DoReverse ==
    /\ LET r == reverse(elements) IN
         /\ elements' = r.elements
         /\ last' = [Call("reverse", NoArg, NoArg, NoArg, r.res) EXCEPT
                       !.undo = IF last.op = "reverse"
                                THEN [v |-> NoArg, prev |-> last.prev]
                                ELSE None]
    /\ ranks' = Track(reverse(ranks).elements)
    /\ lifo' = FALSE
    /\ UNCHANGED <<capacity, calc, bytes>>

Next ==
    \/ DoLen
    \/ DoIsEmpty
    \/ \E index \in Indices : DoGet(index)
    \/ \E value \in Values : DoContains(value)
    \/ \E value \in Values : DoPush(value)
    \/ DoPop
    \/ \E index \in Indices, write \in Values \cup {NoArg} : DoGetMut(index, write)
    \/ \E index \in Indices, value \in Values : DoSet(index, value)
    \/ \E i \in Indices, j \in Indices : DoSwap(i, j)
    \/ \E index \in Indices : DoRemove(index)
    \/ \E index \in Indices, value \in Values : DoInsert(index, value)
    \/ DoClear
    \/ DoReverse

Spec == Init /\ [][Next]_vars

\* -------------------------------------- Vectors of distinguishable elements
\* The same operations on Vectors whose elements are pairwise different, so
\* that an element can be followed from one position to another: every
\* value handed to push, insert, set or written through get_mut is one the
\* Vector does not hold.
Ids == 1..(MaxLen + 1)
Held == {elements[k] : k \in 1..Len(elements)}
Fresh == Ids \ Held
DistinctItems ==
    {items \in UNION {[1..n -> Ids] : n \in 0..MaxLen} :
        \A a, b \in 1..Len(items) : a # b => items[a] # items[b]}

InitOrder ==
    /\ calc = Idle
    /\ bytes = <<>>
    /\ \/ new
       \/ \E items \in DistinctItems : from_vec(items)

NextOrder ==
    \/ DoLen
    \/ DoIsEmpty
    \/ \E index \in Indices : DoGet(index)
    \/ \E value \in Ids : DoContains(value)
    \/ \E value \in Fresh : DoPush(value)
    \/ DoPop
    \/ \E index \in Indices, write \in Fresh \cup {NoArg} : DoGetMut(index, write)
    \/ \E index \in Indices, value \in Fresh : DoSet(index, value)
    \/ \E i \in Indices, j \in Indices : DoSwap(i, j)
    \/ \E index \in Indices : DoRemove(index)
    \/ \E index \in Indices, value \in Fresh : DoInsert(index, value)
    \/ DoClear
    \/ DoReverse

SpecOrder == InitOrder /\ [][NextOrder]_vars

\* ------------------------------------------------------------- math.rs
\* u64 is 0..WordMax and i64 is IntMin..IntMax; u128 is twice as wide.
WordMax == 2^WordBits - 1
Words == 0..WordMax
IntMin == -(2^(WordBits - 1))
IntMax == 2^(WordBits - 1) - 1
SignedWords == IntMin..IntMax
WideMax == 2^(2 * WordBits) - 1

Pending == [tag |-> "pending"]
Panic(m) == [tag |-> "panic", msg |-> m]

\* -x on i64: overflows for IntMin alone; with overflow checks (the debug
\* profile) that panics, without them (the release profile) it wraps.
Negate(x, checks) ==
    IF x = IntMin
    THEN IF checks THEN Panic("attempt to negate with overflow") ELSE Num(2^WordBits + IntMin)
    ELSE Num(-x)

abs_i64(x, checks) ==
    IF x < 0 THEN Negate(x, checks) ELSE Num(x)

\* x.div_ceil(2)
DivCeil(x, d) == IF x % d > 0 THEN x \div d + 1 ELSE x \div d

\* Mutant: the Newton step rounded up instead of down.
NewtonSumRoundUp(x, n) == x + n \div x + 1

\* x + n / x, before it is halved.
NewtonSum(x, n) == x + n \div x

RECURSIVE IsqrtLoop(_, _, _, _)
\* while y < x { x = y; y = (x + n / x) / 2; }  x
IsqrtLoop(n, x, y, checks) ==
    IF y < x
    THEN LET sum == NewtonSum(y, n) IN
         IF sum > WordMax /\ checks
         THEN Panic("attempt to add with overflow")
         ELSE IsqrtLoop(n, y, (sum % (2^WordBits)) \div 2, checks)
    ELSE Num(x)

isqrt_u64(n, checks) ==
    IF n = 0 THEN Num(0) ELSE IsqrtLoop(n, n, DivCeil(n, 2), checks)

RECURSIVE GcdStopsAtOne(_, _)
\* Mutant: the loop runs while b > 1.
GcdStopsAtOne(a, b) == IF b > 1 THEN GcdStopsAtOne(b, a % b) ELSE a

RECURSIVE gcd_u64(_, _)
\* while b != 0 { let temp = b; b = a % b; a = temp; }  a
gcd_u64(a, b) == IF b # 0 THEN gcd_u64(b, a % b) ELSE a

checked_div(a, d) == IF d = 0 THEN None ELSE Some(a \div d)
checked_mul(a, b) == IF a * b > WordMax THEN None ELSE Some(a * b)

lcm_u64(a, b) ==
    LET gcd == gcd_u64(a, b)
        q == checked_div(a, gcd)
    IN  IF q = None THEN None ELSE checked_mul(q.val, b)

RECURSIVE OddDivisorFrom(_, _, _)
\* for i in (3..=sqrt_n).step_by(2): some i from `i` on divides n.
OddDivisorFrom(n, i, sqrt_n) ==
    IF i > sqrt_n THEN FALSE
    ELSE IF n % i = 0 THEN TRUE
    ELSE OddDivisorFrom(n, i + 2, sqrt_n)

\* Mutant: the trial divisors stop short of the square root (3..sqrt_n).
is_prime_exclusive(n, checks) ==
    IF n < 2 THEN Bool(FALSE)
    ELSE IF n = 2 THEN Bool(TRUE)
    ELSE IF n % 2 = 0 THEN Bool(FALSE)
    ELSE LET sqrt_n == isqrt_u64(n, checks) IN
         IF sqrt_n.tag = "panic" THEN sqrt_n
         ELSE Bool(~OddDivisorFrom(n, 3, sqrt_n.val - 1))

is_prime(n, checks) ==
    IF n < 2 THEN Bool(FALSE)
    ELSE IF n = 2 THEN Bool(TRUE)
    ELSE IF n % 2 = 0 THEN Bool(FALSE)
    ELSE LET sqrt_n == isqrt_u64(n, checks) IN
         IF sqrt_n.tag = "panic" THEN sqrt_n
         ELSE Bool(~OddDivisorFrom(n, 3, sqrt_n.val))

wrapping_add(a, b) == (a + b) % (2^WordBits)

RECURSIVE FibLoop(_, _, _, _)
\* for _ in 2..=n { let temp = a.wrapping_add(b); a = b; b = temp; }  b
FibLoop(k, n, a, b) ==
    IF k > n THEN b ELSE FibLoop(k + 1, n, b, wrapping_add(a, b))

fibonacci_u64(n) ==
    IF n = 0 THEN Num(0)
    ELSE IF n = 1 THEN Num(1)
    ELSE Num(FibLoop(2, n, 0, 1))

\* ((x as u128 * y as u128) % modulus as u128) as u64
MulMod(x, y, modulus) == (((x * y) % (WideMax + 1)) % modulus) % (2^WordBits)

RECURSIVE ModExpLoop(_, _, _, _)
\* while exp > 0 { if exp % 2 == 1 { result = result * base % modulus; }
\*                 exp >>= 1; base = base * base % modulus; }  result
ModExpLoop(result, base, exp, modulus) ==
    IF exp > 0
    THEN ModExpLoop(IF exp % 2 = 1 THEN MulMod(result, base, modulus) ELSE result,
                    MulMod(base, base, modulus), exp \div 2, modulus)
    ELSE result

mod_exp_u64(base, exp, modulus) ==
    IF modulus = 1 THEN Num(0)
    ELSE IF modulus = 0
    THEN Panic("attempt to calculate the remainder with a divisor of zero")
    ELSE Num(ModExpLoop(1, base % modulus, exp, modulus))

\* A call of a free function: calc holds it from the start, and the one
\* step of the behaviour runs it.
Asked(fn, a, b, c, checks) ==
    [fn |-> fn, a |-> a, b |-> b, c |-> c, checks |-> checks, res |-> Pending]

InitMath ==
    /\ new
    /\ bytes = <<>>
    /\ \E checks \in BOOLEAN :
          \/ \E x \in SignedWords : calc = Asked("abs_i64", x, NoArg, NoArg, checks)
          \/ \E n \in Words : calc = Asked("isqrt_u64", n, NoArg, NoArg, checks)
          \/ \E a \in Words, b \in Words : calc = Asked("gcd_u64", a, b, NoArg, checks)
          \/ \E a \in Words, b \in Words : calc = Asked("lcm_u64", a, b, NoArg, checks)
          \/ \E n \in Words : calc = Asked("is_prime", n, NoArg, NoArg, checks)
          \/ \E n \in Words : calc = Asked("fibonacci_u64", n, NoArg, NoArg, checks)
          \/ \E base \in Words, exp \in Words, modulus \in Words :
                calc = Asked("mod_exp_u64", base, exp, modulus, checks)

Run(fn, res) ==
    /\ calc.fn = fn
    /\ calc.res = Pending
    /\ calc' = [calc EXCEPT !.res = res]
    /\ UNCHANGED <<elements, capacity, last, ranks, lifo, bytes>>

RunAbs == Run("abs_i64", abs_i64(calc.a, calc.checks))
RunIsqrt == Run("isqrt_u64", isqrt_u64(calc.a, calc.checks))
RunGcd == Run("gcd_u64", Num(gcd_u64(calc.a, calc.b)))
RunLcm == Run("lcm_u64", lcm_u64(calc.a, calc.b))
RunIsPrime == Run("is_prime", is_prime(calc.a, calc.checks))
RunFibonacci == Run("fibonacci_u64", fibonacci_u64(calc.a))
RunModExp == Run("mod_exp_u64", mod_exp_u64(calc.a, calc.b, calc.c))

NextMath ==
    \/ RunAbs
    \/ RunIsqrt
    \/ RunGcd
    \/ RunLcm
    \/ RunIsPrime
    \/ RunFibonacci
    \/ RunModExp

SpecMath == InitMath /\ [][NextMath]_vars

\* ------------------------------------------------------------ string.rs
\* A String is its bytes field: a sequence of bytes (0..255).

\* The bytes at offsets lo..hi-1 (the slice b[lo..hi], for lo <= hi <= len).
Slice(b, lo, hi) == SubSeq(b, lo + 1, hi)

\* -- std::str::from_utf8 --
\* A continuation byte, 0x80..=0xBF.
IsContinuation(b, k) == k <= Len(b) /\ b[k] >= 128 /\ b[k] <= 191

\* The length of the sequence that the first byte announces (0: no
\* sequence starts with this byte).
Utf8CharWidth(first) ==
    IF first < 128 THEN 1
    ELSE IF first >= 194 /\ first <= 223 THEN 2
    ELSE IF first >= 224 /\ first <= 239 THEN 3
    ELSE IF first >= 240 /\ first <= 244 THEN 4
    ELSE 0

\* The second byte of a three and of a four byte sequence is in the range
\* that excludes overlong forms, surrogates and values above U+10FFFF.
SecondByteFits(first, next) ==
    \/ first = 224 /\ next >= 160 /\ next <= 191
    \/ first >= 225 /\ first <= 236 /\ next >= 128 /\ next <= 191
    \/ first = 237 /\ next >= 128 /\ next <= 159
    \/ first >= 238 /\ first <= 239 /\ next >= 128 /\ next <= 191
    \/ first = 240 /\ next >= 144 /\ next <= 191
    \/ first >= 241 /\ first <= 243 /\ next >= 128 /\ next <= 191
    \/ first = 244 /\ next >= 128 /\ next <= 143

\* The validation loop: b holds well-formed sequences from index k on.
RECURSIVE ValidFrom(_, _)
ValidFrom(b, k) ==
    IF k > Len(b) THEN TRUE
    ELSE LET first == b[k]
             width == Utf8CharWidth(first)
         IN  IF width = 1 THEN ValidFrom(b, k + 1)
             ELSE IF width = 2
             THEN IsContinuation(b, k + 1) /\ ValidFrom(b, k + 2)
             ELSE IF width = 3
             THEN /\ k + 1 <= Len(b)
                  /\ SecondByteFits(first, b[k + 1])
                  /\ IsContinuation(b, k + 2)
                  /\ ValidFrom(b, k + 3)
             ELSE IF width = 4
             THEN /\ k + 1 <= Len(b)
                  /\ SecondByteFits(first, b[k + 1])
                  /\ IsContinuation(b, k + 2)
                  /\ IsContinuation(b, k + 3)
                  /\ ValidFrom(b, k + 4)
             ELSE FALSE

from_utf8(b) == IF ValidFrom(b, 1) THEN Ok(b) ELSE Err("Utf8Error")

\* -- char --
\* str::chars on valid UTF-8: the code points, in order.
RECURSIVE Chars(_, _)
Chars(b, k) ==
    IF k > Len(b) THEN <<>>
    ELSE LET first == b[k]
             width == Utf8CharWidth(first)
             ch == IF width = 1 THEN first
                   ELSE IF width = 2
                   THEN (first % 32) * 64 + (b[k + 1] % 64)
                   ELSE IF width = 3
                   THEN (first % 16) * 4096 + (b[k + 1] % 64) * 64 + (b[k + 2] % 64)
                   ELSE (first % 8) * 262144 + (b[k + 1] % 64) * 4096
                        + (b[k + 2] % 64) * 64 + (b[k + 3] % 64)
         IN  <<ch>> \o Chars(b, k + width)

\* char::encode_utf8.
encode_utf8(ch) ==
    IF ch < 128 THEN <<ch>>
    ELSE IF ch < 2048 THEN <<192 + (ch \div 64), 128 + (ch % 64)>>
    ELSE IF ch < 65536
    THEN <<224 + (ch \div 4096), 128 + ((ch \div 64) % 64), 128 + (ch % 64)>>
    ELSE <<240 + (ch \div 262144), 128 + ((ch \div 4096) % 64),
           128 + ((ch \div 64) % 64), 128 + (ch % 64)>>

\* The str made of the given chars.
RECURSIVE Collect(_)
Collect(chars) ==
    IF chars = <<>> THEN <<>>
    ELSE encode_utf8(Head(chars)) \o Collect(Tail(chars))

\* char::to_uppercase and char::to_lowercase on the Basic Latin and
\* Latin-1 letters whose other case is one char of the same block (every
\* char below U+0100 but U+00B5, U+00DF and U+00FF); other chars of the
\* model's strings have no case.
UpperChar(ch) ==
    IF (ch >= 97 /\ ch <= 122) \/ (ch >= 224 /\ ch <= 254 /\ ch # 247)
    THEN ch - 32 ELSE ch

LowerChar(ch) ==
    IF (ch >= 65 /\ ch <= 90) \/ (ch >= 192 /\ ch <= 222 /\ ch # 215)
    THEN ch + 32 ELSE ch

\* char::is_whitespace (the White_Space property).
is_whitespace(ch) ==
    \/ ch >= 9 /\ ch <= 13
    \/ ch \in {32, 133, 160, 5760, 8232, 8233, 8239, 8287, 12288}
    \/ ch >= 8192 /\ ch <= 8202

RECURSIVE TrimStart(_)
TrimStart(chars) ==
    IF chars # <<>> /\ is_whitespace(Head(chars)) THEN TrimStart(Tail(chars))
    ELSE chars

RECURSIVE TrimEnd(_)
TrimEnd(chars) ==
    IF chars # <<>> /\ is_whitespace(chars[Len(chars)])
    THEN TrimEnd(SubSeq(chars, 1, Len(chars) - 1))
    ELSE chars

\* str::to_uppercase, str::to_lowercase and str::trim.
StrToUppercase(s) == Collect([k \in 1..Len(Chars(s, 1)) |-> UpperChar(Chars(s, 1)[k])])
StrToLowercase(s) == Collect([k \in 1..Len(Chars(s, 1)) |-> LowerChar(Chars(s, 1)[k])])
StrTrim(s) == Collect(TrimEnd(TrimStart(Chars(s, 1))))

\* -- slice::windows --
\* The number of windows of the given (non-zero) size.
WindowCount(b, size) == IF Len(b) >= size THEN Len(b) - size + 1 ELSE 0

\* The window that starts at offset pos.
Window(b, size, pos) == Slice(b, pos, pos + size)

\* Iterator::position over the windows from offset pos on: the offset of
\* the first window equal to needle.
RECURSIVE Position(_, _, _)
Position(b, needle, pos) ==
    IF pos >= WindowCount(b, Len(needle)) THEN None
    ELSE IF Window(b, Len(needle), pos) = needle THEN Some(pos)
    ELSE Position(b, needle, pos + 1)

\* Iterator::any over the windows from offset pos on.
RECURSIVE AnyWindow(_, _, _)
AnyWindow(b, needle, pos) ==
    IF pos >= WindowCount(b, Len(needle)) THEN FALSE
    ELSE IF Window(b, Len(needle), pos) = needle THEN TRUE
    ELSE AnyWindow(b, needle, pos + 1)

\* -- impl String --
String_new == <<>>

String_from_bytes(b) ==
    IF from_utf8(b).tag = "Err" THEN Err("Invalid UTF-8") ELSE Ok(b)

\* s is a &str, which holds valid UTF-8.
String_from_str(s) == s

String_len(s) == Len(s)

String_is_empty(s) == Len(s) = 0

String_as_str(s) ==
    IF from_utf8(s).tag = "Err" THEN Err("Invalid UTF-8") ELSE Ok(s)

String_push_str(s, other) == s \o other

String_push_char(s, ch) == s \o encode_utf8(ch)

\* slice::windows panics when the size is zero.
String_contains(s, needle) ==
    IF Len(needle) = 0 THEN Panic("window size must be non-zero")
    ELSE Bool(AnyWindow(s, needle, 0))

String_find(s, needle) ==
    IF Len(needle) = 0 THEN Panic("window size must be non-zero")
    ELSE Position(s, needle, 0)

String_substring(s, start, end) ==
    LET from == AsUsize(start)
        to == AsUsize(end)
    IN  IF from > Len(s) \/ to > Len(s) \/ from > to
        THEN Err("Invalid substring indices")
        ELSE Ok(Slice(s, from, to))

String_to_uppercase(s) ==
    IF String_as_str(s).tag = "Ok"
    THEN String_from_str(StrToUppercase(String_as_str(s).val))
    ELSE s

String_to_lowercase(s) ==
    IF String_as_str(s).tag = "Ok"
    THEN String_from_str(StrToLowercase(String_as_str(s).val))
    ELSE s

String_trim(s) ==
    IF String_as_str(s).tag = "Ok"
    THEN String_from_str(StrTrim(String_as_str(s).val))
    ELSE s

\* Mutant: the scan resumes one byte after the start of the delimiter found.
SplitResumeNextByte(pos, delimiter) == pos + 1

\* `start = pos + delimiter.bytes.len()`.
SplitResume(pos, delimiter) == pos + Len(delimiter)

\* `if let Ok(part) = .. { result.push(part) }`.
PushIfOk(result, part) ==
    IF part.tag = "Ok" THEN Append(result, part.val) ELSE result

\* The while loop of split and the statements after it.
RECURSIVE SplitLoop(_, _, _, _)
SplitLoop(s, delimiter, start, result) ==
    LET rest == String_substring(s, start, Len(s))
        found == IF rest.tag = "Ok" THEN String_find(rest.val, delimiter) ELSE None
    IN  IF found.tag = "Some"
        THEN LET pos == found.val + start IN
             SplitLoop(s, delimiter, SplitResume(pos, delimiter),
                       PushIfOk(result, String_substring(s, start, pos)))
        ELSE IF start <= Len(s)
        THEN PushIfOk(result, String_substring(s, start, Len(s)))
        ELSE result

String_split(s, delimiter) ==
    IF String_is_empty(delimiter) THEN <<s>>
    ELSE SplitLoop(s, delimiter, 0, <<>>)

RECURSIVE String_repeat(_, _)
String_repeat(s, n) ==
    IF n = 0 THEN String_new ELSE String_push_str(String_repeat(s, n - 1), s)

\* The for loop of replace over parts[i..]: `to` goes before every part
\* but the first.
RECURSIVE ReplaceLoop(_, _, _, _)
ReplaceLoop(parts, to, i, result) ==
    IF i >= Len(parts) THEN result
    ELSE ReplaceLoop(parts, to, i + 1,
            String_push_str(IF i > 0 THEN String_push_str(result, to) ELSE result,
                            parts[i + 1]))

String_replace(s, from, to) == ReplaceLoop(String_split(s, from), to, 0, String_new)

\* -- the calls explored --
\* Bytes of the arguments: ' ' and the two bytes of U+00E9 (0xC3 0xA9).
Alphabet == {32, 195, 169}
\* Chars handed to push_char: ' ' and U+00E9.
TextChars == {32, 233}
ByteStrings(alphabet, n) == UNION {[1..k -> alphabet] : k \in 0..n}
\* &str arguments hold valid UTF-8.
Strs(n) == {b \in ByteStrings(Alphabet, n) : ValidFrom(b, 1)}
\* start and end arguments of substring.
Offsets == (0..(StrLen + 1)) \cup {U64Max}
\* String arguments of push_str, split and replace: Strings made by from_str.
Args == {String_from_str(s) : s \in Strs(2)}
\* n arguments of repeat.
Counts == 0..2

\* A call of a String method on s: its name, its String or byte arguments
\* (args), its integer arguments (i, j) and its result.
StringCall(fn, s, args, i, j, res) ==
    [fn |-> fn, s |-> s, args |-> args, i |-> i, j |-> j, res |-> res]

\* ------------------------------------------------- a String and its heirs
\* The String at hand is made by new, from_bytes or from_str; a method that
\* returns a String (or several) hands over the String at hand to one it
\* returned.
InitString ==
    /\ new
    /\ \/ /\ bytes = String_new
          /\ calc = StringCall("new", <<>>, <<>>, NoArg, NoArg, Ok(String_new))
       \/ \E b \in ByteStrings(Alphabet, StrLen) :
             /\ calc = StringCall("from_bytes", <<>>, <<b>>, NoArg, NoArg,
                                  String_from_bytes(b))
             /\ bytes = IF calc.res.tag = "Ok" THEN calc.res.val ELSE <<>>
       \/ \E s \in Strs(StrLen) :
             /\ bytes = String_from_str(s)
             /\ calc = StringCall("from_str", <<>>, <<s>>, NoArg, NoArg,
                                  Ok(String_from_str(s)))

\* from_bytes has returned a String (a failed from_bytes leaves none).
Exists == calc.res.tag # "Err" \/ calc.fn # "from_bytes"

\* The String at hand becomes `next` through the call recorded.
Becomes(next, fn, args, i, j, res) ==
    /\ Exists
    /\ Len(next) <= StrLen
    /\ bytes' = next
    /\ calc' = StringCall(fn, bytes, args, i, j, res)
    /\ UNCHANGED <<elements, capacity, last, ranks, lifo>>

StringAsStr ==
    Becomes(bytes, "as_str", <<>>, NoArg, NoArg, String_as_str(bytes))

StringPushStr(other) ==
    Becomes(String_push_str(bytes, other), "push_str", <<other>>, NoArg, NoArg, Unit)

StringPushChar(ch) ==
    Becomes(String_push_char(bytes, ch), "push_char", <<>>, ch, NoArg, Unit)

StringSubstring(start, end) ==
    LET res == String_substring(bytes, start, end) IN
    Becomes(IF res.tag = "Ok" THEN res.val ELSE bytes,
            "substring", <<>>, start, end, res)

StringToUppercase ==
    LET upper == String_to_uppercase(bytes) IN
    Becomes(upper, "to_uppercase", <<>>, NoArg, NoArg, Ok(upper))

StringToLowercase ==
    LET lower == String_to_lowercase(bytes) IN
    Becomes(lower, "to_lowercase", <<>>, NoArg, NoArg, Ok(lower))

StringTrim ==
    LET trimmed == String_trim(bytes) IN
    Becomes(trimmed, "trim", <<>>, NoArg, NoArg, Ok(trimmed))

\* The String at hand becomes the k-th part.
StringSplit(delimiter, k) ==
    LET parts == String_split(bytes, delimiter) IN
    /\ k <= Len(parts)
    /\ Becomes(parts[k], "split", <<delimiter>>, k, NoArg, Ok(parts))

StringRepeat(n) ==
    /\ Len(bytes) * n <= StrLen
    /\ LET repeated == String_repeat(bytes, n) IN
       Becomes(repeated, "repeat", <<>>, n, NoArg, Ok(repeated))

StringReplace(from, to) ==
    LET replaced == String_replace(bytes, from, to) IN
    Becomes(replaced, "replace", <<from, to>>, NoArg, NoArg, Ok(replaced))

NextString ==
    \/ StringAsStr
    \/ \E other \in Args : StringPushStr(other)
    \/ \E ch \in TextChars : StringPushChar(ch)
    \/ \E start \in Offsets, end \in Offsets : StringSubstring(start, end)
    \/ StringToUppercase
    \/ StringToLowercase
    \/ StringTrim
    \/ \E delimiter \in Args, k \in 1..(StrLen + 1) : StringSplit(delimiter, k)
    \/ \E n \in Counts : StringRepeat(n)
    \/ \E from \in Args, to \in Args : StringReplace(from, to)

SpecString == InitString /\ [][NextString]_vars

\* --------------------------------------------------- searching a String
\* One call of contains, find, split or replace on a String s: calc holds
\* it from the start, and the one step of the behaviour runs it.
Haystacks == ByteStrings(Alphabet, StrLen)
Needles == ByteStrings(Alphabet, StrLen)
\* `to` arguments of replace: `from` itself and any String of at most one byte.
Replacements(from) == {from} \cup ByteStrings(Alphabet, 1)

InitSearch ==
    /\ new
    /\ \E s \in Haystacks, needle \in Needles :
          /\ bytes = s
          /\ \/ calc = StringCall("contains", s, <<needle>>, NoArg, NoArg, Pending)
             \/ calc = StringCall("find", s, <<needle>>, NoArg, NoArg, Pending)
             \/ calc = StringCall("split", s, <<needle>>, NoArg, NoArg, Pending)
             \/ \E to \in Replacements(needle) :
                   calc = StringCall("replace", s, <<needle, to>>, NoArg, NoArg, Pending)

RunContains == Run("contains", String_contains(calc.s, calc.args[1]))
RunFind == Run("find", String_find(calc.s, calc.args[1]))
RunSplit == Run("split", Ok(String_split(calc.s, calc.args[1])))
RunReplace == Run("replace", Ok(String_replace(calc.s, calc.args[1], calc.args[2])))

NextSearch ==
    \/ RunContains
    \/ RunFind
    \/ RunSplit
    \/ RunReplace

SpecSearch == InitSearch /\ [][NextSearch]_vars

\* ------------------------------------------------------------ vocabulary
\* The contents and the length before the last call, and what it returned.
Before == last.prev
LenBefore == len(last.prev)
Returned == last.res
Failed == last.res.tag = "Err"
Succeeded == last.res.tag = "Ok"
Positions == 0..MaxLen

\* The elements at positions lo..hi-1 of a are those at lo+shift.. of b.
SameRange(a, lo, hi, b, shift) ==
    \A p \in Positions : (lo <= p /\ p < hi) => get(a, p) = get(b, p + shift)

\* ------------------------------------------------------------------ claims
\* C1: set(index, _), remove(index), swap(index, j) and swap(j, index) with
\* index >= len() return Err, insert(index, _) with index > len() returns
\* Err, and after any such failing call the length and every element are as
\* before the call.
C1_OutOfBoundsFailsUntouched ==
    /\ (last.op \in {"set", "remove"} /\ last.i >= LenBefore) => Failed
    /\ (last.op = "swap" /\ (last.i >= LenBefore \/ last.j >= LenBefore)) => Failed
    /\ (last.op = "insert" /\ last.i > LenBefore) => Failed
    /\ (last.op \in {"set", "remove", "swap", "insert"} /\ Failed) =>
          /\ len(elements) = LenBefore
          /\ SameRange(elements, 0, LenBefore, Before, 0)
          /\ elements = Before

\* A set at index = len() of a non-empty Vector has failed.
C1_Witness ==
    /\ last.op = "set"
    /\ LenBefore > 0
    /\ last.i = LenBefore
    /\ last.v # Before[1]
    /\ Failed

\* C2: push(x) returns normally; afterwards len() is the previous len() plus
\* 1, get(len()-1) is x and get(i) is as before for every i below the
\* previous length.
C2_PushAppends ==
    last.op = "push" =>
        /\ Returned = Unit
        /\ len(elements) = LenBefore + 1
        /\ get(elements, len(elements) - 1) = Some(last.v)
        /\ SameRange(elements, 0, LenBefore, Before, 0)

\* A push onto a Vector of two elements, of a value other than its first.
C2_Witness ==
    /\ last.op = "push"
    /\ LenBefore = 2
    /\ last.v # Before[1]
    /\ len(elements) = 3

\* C3: pop() on a non-empty Vector returns the element at index len()-1,
\* decreases len() by 1 and leaves the lower elements unchanged; on an empty
\* Vector it returns None (an absence, not an Err) and len() remains 0.
C3_PopTakesLast ==
    last.op = "pop" =>
        IF LenBefore > 0
        THEN /\ Returned = get(Before, LenBefore - 1)
             /\ Returned.tag = "Some"
             /\ len(elements) = LenBefore - 1
             /\ SameRange(elements, 0, LenBefore - 1, Before, 0)
        ELSE /\ Returned = None
             /\ len(elements) = 0

\* pop() on the empty Vector made by with_capacity(MaxCapacity) returned
\* None: only with_capacity gives an empty Vector that capacity.
C3_Witness ==
    /\ last.op = "pop"
    /\ capacity = MaxCapacity
    /\ Before = <<>>
    /\ Returned = None
    /\ elements = <<>>

\* The position before the last call of the element pushed most recently
\* among those then present (defined while the push order is recorded).
NewestBefore == CHOOSE k \in 1..LenBefore : last.pranks[k] = LenBefore

\* C4 as stated: after any sequence of operations, pop() on a non-empty
\* Vector returns the element most recently pushed and not yet removed, and
\* decreases len() by 1.
C4_PopIsNewestAlways ==
    (last.op = "pop" /\ LenBefore > 0 /\ last.pranks # Untracked) =>
        /\ Returned = Some(Before[NewestBefore])
        /\ len(elements) = LenBefore - 1

\* C4 amended: on a non-empty Vector made by new() or with_capacity(n) and
\* changed since only by push, pop, remove and clear, pop() returns the
\* element most recently pushed and not yet removed, and decreases len() by 1.
C4_PopIsNewestWhenLifo ==
    (last.op = "pop" /\ LenBefore > 0 /\ last.pranks # Untracked /\ lifo) =>
        /\ Returned = Some(Before[NewestBefore])
        /\ NewestBefore = LenBefore
        /\ len(elements) = LenBefore - 1

\* A pop from a Vector of two different elements built by push, pop, remove
\* and clear alone.
C4_Witness ==
    /\ last.op = "pop"
    /\ lifo
    /\ LenBefore = 2
    /\ last.pranks = <<1, 2>>
    /\ Before[1] # Before[2]
    /\ Returned = Some(Before[2])

\* C5: insert(index, x) succeeds exactly when index <= len(); on success x
\* is at index, every element formerly at p >= index is at p+1, the elements
\* below index are unchanged and len() grows by 1; insert(len(), x) has the
\* effect of push(x).
C5_InsertShiftsUp ==
    last.op = "insert" =>
        /\ Succeeded <=> last.i <= LenBefore
        /\ Succeeded =>
              /\ get(elements, last.i) = Some(last.v)
              /\ SameRange(Before, last.i, LenBefore, elements, 1)
              /\ SameRange(Before, 0, last.i, elements, 0)
              /\ len(elements) = LenBefore + 1
        /\ last.i = LenBefore => elements = push(Before, last.v).elements

\* An insert strictly inside a Vector, with elements on both sides.
C5_Witness ==
    /\ last.op = "insert"
    /\ last.i = 1
    /\ LenBefore = 2
    /\ Before[1] # Before[2]
    /\ last.v # Before[2]
    /\ Succeeded

\* C6: remove(index) with index < len() returns the element that was at
\* index; every element formerly at p > index is at p-1, the elements below
\* index are unchanged and len() shrinks by 1.
C6_RemoveShiftsDown ==
    (last.op = "remove" /\ last.i < LenBefore) =>
        /\ Returned = Ok(Before[last.i + 1])
        /\ SameRange(elements, last.i, LenBefore - 1, Before, 1)
        /\ SameRange(elements, 0, last.i, Before, 0)
        /\ len(elements) = LenBefore - 1

\* A remove of the first of three elements, the last two differing.
C6_Witness ==
    /\ last.op = "remove"
    /\ last.i = 0
    /\ LenBefore = 3
    /\ Before[2] # Before[3]
    /\ Succeeded

\* C7: swap(i, j) with i < len() and j < len() returns Ok, exchanges the
\* elements at i and j and leaves len() and every other position unchanged;
\* with i = j the Vector is exactly as before.
C7_SwapExchanges ==
    (last.op = "swap" /\ last.i < LenBefore /\ last.j < LenBefore) =>
        /\ Returned = OkUnit
        /\ get(elements, last.i) = get(Before, last.j)
        /\ get(elements, last.j) = get(Before, last.i)
        /\ \A p \in Positions : p \notin {last.i, last.j} =>
                                   get(elements, p) = get(Before, p)
        /\ len(elements) = LenBefore
        /\ last.i = last.j => elements = Before

\* A swap of two different elements at different positions of a Vector of
\* three.
C7_Witness ==
    /\ last.op = "swap"
    /\ LenBefore = 3
    /\ last.i = 2
    /\ last.j = 0
    /\ Before[1] # Before[3]
    /\ Succeeded

\* C8: set(index, x) with index < len() returns Ok; afterwards get(index) is
\* x, and len() and every other element are unchanged.
C8_SetOverwritesOne ==
    (last.op = "set" /\ last.i < LenBefore) =>
        /\ Returned = OkUnit
        /\ get(elements, last.i) = Some(last.v)
        /\ \A p \in Positions : p # last.i => get(elements, p) = get(Before, p)
        /\ len(elements) = LenBefore

\* A set in the middle of three elements that changes the value there.
C8_Witness ==
    /\ last.op = "set"
    /\ LenBefore = 3
    /\ last.i = 1
    /\ last.v # Before[2]
    /\ Succeeded

DigitValue(c) == CHOOSE d \in 0..9 : DigitChars[d + 1] = c

RECURSIVE ParseDecimal(_)
\* The number a sequence of decimal digits writes.
ParseDecimal(ds) ==
    IF Len(ds) = 1 THEN DigitValue(ds[1])
    ELSE 10 * ParseDecimal(SubSeq(ds, 1, Len(ds) - 1)) + DigitValue(ds[Len(ds)])

\* The index and the length an error message carries.
CarriedIndex == ParseDecimal(last.res.msg[2])
CarriedLen == ParseDecimal(last.res.msg[4])

\* C9: every Err of set, swap, remove and insert is "Index out of bounds"
\* and carries the requested index that is out of range and the length at
\* the time of the call; for swap that index is i when i >= len(), and
\* otherwise j.
C9_ErrCarriesIndexAndLen ==
    (last.op \in {"set", "swap", "remove", "insert"} /\ Failed) =>
        /\ last.res.msg[1] = "Index out of bounds: "
        /\ CarriedLen = LenBefore
        /\ last.op \in {"set", "remove"} =>
              CarriedIndex = last.i /\ CarriedIndex >= LenBefore
        /\ last.op = "insert" =>
              CarriedIndex = last.i /\ CarriedIndex > LenBefore
        /\ last.op = "swap" =>
              /\ CarriedIndex >= LenBefore
              /\ CarriedIndex = IF last.i >= LenBefore THEN last.i ELSE last.j

\* A swap whose first index is in range and whose second is the largest u64
\* has failed.
C9_Witness ==
    /\ last.op = "swap"
    /\ LenBefore > 0
    /\ last.i < LenBefore
    /\ last.j = U64Max
    /\ Failed

\* C10: insert(index, x) with index <= len() followed immediately by
\* remove(index) returns x and leaves the Vector with the length and the
\* elements it had before the insert.
C10_InsertRemoveRoundTrip ==
    (last.op = "remove" /\ last.undo # None) =>
        /\ Returned = Ok(last.undo.v)
        /\ len(elements) = len(last.undo.prev)
        /\ elements = last.undo.prev

\* A remove(0) right after insert(0, x) into a Vector of two different
\* elements.
C10_Witness ==
    /\ last.op = "remove"
    /\ last.undo # None
    /\ last.i = 0
    /\ len(last.undo.prev) = 2
    /\ last.undo.prev[1] # last.undo.prev[2]
    /\ Succeeded

\* C11: reverse() leaves len() unchanged and moves the element at every
\* index i to index len()-1-i; a reverse() directly after a reverse() gives
\* back the original order, also for empty and single-element Vectors.
C11_ReverseMirrors ==
    last.op = "reverse" =>
        /\ len(elements) = LenBefore
        /\ \A p \in Positions :
              p < LenBefore => get(elements, LenBefore - 1 - p) = get(Before, p)
        /\ last.undo # None => elements = last.undo.prev

\* The second of two reverses in a row of a Vector of three whose ends
\* differ.
C11_Witness ==
    /\ last.op = "reverse"
    /\ last.undo # None
    /\ LenBefore = 3
    /\ Before[1] # Before[3]
    /\ elements = last.undo.prev

\* The elements present both before and after the last call, and where an
\* element is in a Vector that holds it once.
Kept == {x \in Ids : (\E k \in 1..LenBefore : Before[k] = x) /\ x \in Held}
PositionIn(s, x) == CHOOSE k \in 1..Len(s) : s[k] = x
OrderKept ==
    \A x, y \in Kept :
        PositionIn(Before, x) < PositionIn(Before, y) =>
            PositionIn(elements, x) < PositionIn(elements, y)

\* C12 as stated: after any operation other than reverse, two elements that
\* are in the Vector before and after it are in the same order as before.
C12_OrderKeptExceptReverse ==
    last.op # "reverse" => OrderKept

\* C12 amended: after any operation other than reverse and other than a
\* successful swap of two different positions, two elements that are in the
\* Vector before and after it are in the same order as before.
C12_OrderKeptExceptReverseAndSwap ==
    (last.op # "reverse" /\ ~(last.op = "swap" /\ Succeeded /\ last.i # last.j))
        => OrderKept

\* An insert between two elements, both of which are still there.
C12_Witness ==
    /\ last.op = "insert"
    /\ last.i = 1
    /\ LenBefore = 2
    /\ Cardinality(Kept) = 2
    /\ PositionIn(elements, Before[2]) = 3

\* C13: in every state reached from new(), with_capacity(n) or
\* from_vec(items), get(i) returns an element for every i < len() and None
\* for every i >= len(), is_empty() is true exactly when len() is 0, and
\* len, is_empty, get and contains leave the Vector as it was.
C13_EveryIndexLive ==
    /\ \A i \in Indices :
          /\ i < len(elements) => get(elements, i).tag = "Some"
          /\ i >= len(elements) => get(elements, i) = None
    /\ is_empty(elements) <=> len(elements) = 0
    /\ last.op \in {"len", "is_empty", "get", "contains"} => elements = Before

\* A get at index = len() of a Vector of two elements found nothing.
C13_Witness ==
    /\ last.op = "get"
    /\ len(elements) = 2
    /\ last.i = 2
    /\ Returned = None
    /\ elements = Before

\* The free function fn has run; its result is calc.res.
Ran(fn) == calc.fn = fn /\ calc.res # Pending
Value(n) == calc.res = Num(n)

\* C14: isqrt_u64(n) returns, for every n of the word range including 0, 1
\* and the maximum, the r with r*r <= n < (r+1)*(r+1), and no x + n/x of the
\* Newton iteration leaves the word range (a build with overflow checks
\* does not panic).
C14_IsqrtIsFloorRoot ==
    Ran("isqrt_u64") =>
        /\ calc.res.tag = "u64"
        /\ calc.res.val \in Words
        /\ calc.res.val * calc.res.val <= calc.a
        /\ calc.a < (calc.res.val + 1) * (calc.res.val + 1)

\* isqrt_u64 of the largest word, run with overflow checks, has returned a
\* root above 1.
C14_Witness ==
    /\ Ran("isqrt_u64")
    /\ calc.a = WordMax
    /\ calc.checks
    /\ calc.res.tag = "u64"
    /\ calc.res.val > 1

RECURSIVE PowMod(_, _, _)
\* base^exp mod modulus, by the definition of the power.
PowMod(base, exp, modulus) ==
    IF exp = 0 THEN 1 % modulus
    ELSE (PowMod(base, exp - 1, modulus) * base) % modulus

\* C15: mod_exp_u64(base, exp, modulus) returns a value for every base, exp
\* and modulus of the word range, and for modulus >= 1 that value is
\* base^exp mod modulus.
C15_ModExpTotalAndExact ==
    Ran("mod_exp_u64") =>
        /\ calc.res.tag = "u64"
        /\ calc.c >= 1 => Value(PowMod(calc.a, calc.b, calc.c))

\* What holds of the code: for modulus >= 1 the value is base^exp mod
\* modulus, and for modulus = 0 the call panics.
C15_ModExpExactForPositiveModulus ==
    Ran("mod_exp_u64") =>
        IF calc.c >= 1 THEN Value(PowMod(calc.a, calc.b, calc.c))
        ELSE calc.res.tag = "panic"

Divides(d, x) == IF d = 0 THEN x = 0 ELSE x % d = 0

\* C16: gcd_u64(a, b) ends and returns the greatest common divisor: it
\* divides a and b, every common divisor of a and b divides it,
\* gcd_u64(a, 0) = gcd_u64(0, a) = a, and gcd_u64(a, b) = gcd_u64(b, a).
C16_GcdIsGreatestCommonDivisor ==
    Ran("gcd_u64") =>
        /\ calc.res.tag = "u64"
        /\ Divides(calc.res.val, calc.a)
        /\ Divides(calc.res.val, calc.b)
        /\ \A d \in Words :
              (Divides(d, calc.a) /\ Divides(d, calc.b)) => Divides(d, calc.res.val)
        /\ calc.b = 0 => Value(calc.a)
        /\ calc.a = 0 => Value(calc.b)
        /\ Value(gcd_u64(calc.b, calc.a))

\* gcd_u64(12, 18) has returned 6.
C16_Witness ==
    /\ Ran("gcd_u64")
    /\ calc.a = 12
    /\ calc.b = 18
    /\ Value(6)

\* The least common multiple: 0 when a or b is 0, and otherwise the least
\* positive multiple of a that b divides.
LeastCommonMultiple(a, b) ==
    IF a = 0 \/ b = 0 THEN 0
    ELSE LET common == {a * k : k \in 1..b} \cap {b * k : k \in 1..a}
         IN  CHOOSE m \in common : \A other \in common : m <= other

\* C17: lcm_u64(a, b) returns Some(m), m the least common multiple of a and
\* b, whenever m fits in the word (also when a or b is 0), and None only
\* when it does not fit.
C17_LcmUnlessOverflow ==
    Ran("lcm_u64") =>
        LET m == LeastCommonMultiple(calc.a, calc.b) IN
        calc.res = IF m <= WordMax THEN Some(m) ELSE None

\* What holds of the code: the same, except that lcm_u64(0, 0) is None.
C17_LcmUnlessOverflowOrBothZero ==
    Ran("lcm_u64") =>
        LET m == LeastCommonMultiple(calc.a, calc.b) IN
        calc.res = IF m <= WordMax /\ ~(calc.a = 0 /\ calc.b = 0) THEN Some(m) ELSE None

IsPrimeNumber(n) == n >= 2 /\ \A d \in 2..(n - 1) : n % d # 0

\* C18: is_prime(n) is true exactly when n is prime, for every n of the
\* word range: false for 0, 1 and every odd perfect square, true for 2
\* and 3.
C18_IsPrimeIsPrimality ==
    Ran("is_prime") => calc.res = Bool(IsPrimeNumber(calc.a))

\* is_prime(25), an odd perfect square, has returned false.
C18_Witness ==
    /\ Ran("is_prime")
    /\ calc.a = 25
    /\ calc.res = Bool(FALSE)

RECURSIVE Fib(_)
\* F(0) = 0, F(1) = 1, F(n) = F(n-1) + F(n-2), computed from below.
Fib(n) == IF n < 2 THEN n ELSE Fib(n - 1) + Fib(n - 2)

\* C19: fibonacci_u64(n) returns the n-th Fibonacci number for every n of
\* the word range.
C19_FibonacciIsFib ==
    Ran("fibonacci_u64") => Value(Fib(calc.a))

\* What holds of the code: the n-th Fibonacci number reduced modulo the
\* word size.
C19_FibonacciIsFibWrapped ==
    Ran("fibonacci_u64") => Value(Fib(calc.a) % (2^WordBits))

\* C20: abs_i64(x) returns the absolute value of x as an unsigned value for
\* every signed x, the minimum included.
C20_AbsIsAbsoluteValue ==
    Ran("abs_i64") => Value(IF calc.a < 0 THEN -calc.a ELSE calc.a)

\* What holds of the code: the same, except that abs_i64 of the minimum
\* panics in a build with overflow checks.
C20_AbsUnlessMinChecked ==
    Ran("abs_i64") =>
        IF calc.a = IntMin /\ calc.checks THEN calc.res.tag = "panic"
        ELSE Value(IF calc.a < 0 THEN -calc.a ELSE calc.a)

\* ------------------------------------------------------ claims: String
\* The method fn of String has been called on calc.s; its result is calc.res.
Self == calc.s
Needle == calc.args[1]

\* needle occurs in s at byte offset k.
OccursAt(s, needle, k) ==
    /\ k + Len(needle) <= Len(s)
    /\ \A j \in 1..Len(needle) : s[k + j] = needle[j]

Occurs(s, needle) == \E k \in 0..Len(s) : OccursAt(s, needle, k)

FirstOffset(s, needle) ==
    CHOOSE k \in 0..Len(s) :
        /\ OccursAt(s, needle, k)
        /\ \A m \in 0..(k - 1) : ~OccursAt(s, needle, m)

\* C21: for every String s and every needle n (of any length, the empty
\* needle and a needle longer than s included), s.contains(n) is true
\* exactly when the bytes of n occur contiguously in s, s.find(n) is Some(k)
\* with k the smallest byte offset at which n occurs and None when n does
\* not occur, and contains(n) equals find(n).is_some().
C21_ContainsAndFindLocateNeedle ==
    /\ Ran("contains") =>
          /\ calc.res = Bool(Occurs(Self, Needle))
          /\ calc.res = Bool(String_find(Self, Needle).tag = "Some")
    /\ Ran("find") =>
          /\ calc.res = IF Occurs(Self, Needle)
                        THEN Some(FirstOffset(Self, Needle)) ELSE None
          /\ String_contains(Self, Needle) = Bool(calc.res.tag = "Some")

\* What holds of the code: the same for every needle of at least one byte;
\* with the empty needle both contains and find panic.
C21_LocateUnlessNeedleEmpty ==
    IF Ran("contains") /\ Needle = <<>> THEN calc.res.tag = "panic"
    ELSE IF Ran("find") /\ Needle = <<>> THEN calc.res.tag = "panic"
    ELSE C21_ContainsAndFindLocateNeedle

\* find has located a needle that occurs twice, first at an offset above 0.
C21_Found ==
    /\ Ran("find")
    /\ calc.res.tag = "Some"
    /\ calc.res.val > 0
    /\ \E k \in 0..Len(Self) : k > calc.res.val /\ OccursAt(Self, Needle, k)

\* contains has dismissed a needle longer than the String.
C21_TooLong ==
    /\ Ran("contains")
    /\ Len(Needle) > Len(Self)
    /\ calc.res = Bool(FALSE)

\* A Unicode scalar value: a code point that is not a surrogate.
IsScalar(c) == c >= 0 /\ c <= 1114111 /\ ~(c >= 55296 /\ c <= 57343)

\* The code point that a chunk of one to four bytes spells, its first byte
\* read as the lead byte of a sequence of that length and the others as
\* continuation bytes.
Spelled(chunk) ==
    IF Len(chunk) = 1 THEN chunk[1]
    ELSE IF Len(chunk) = 2 THEN (chunk[1] - 192) * 64 + (chunk[2] - 128)
    ELSE IF Len(chunk) = 3
    THEN (chunk[1] - 224) * 4096 + (chunk[2] - 128) * 64 + (chunk[3] - 128)
    ELSE (chunk[1] - 240) * 262144 + (chunk[2] - 128) * 4096
         + (chunk[3] - 128) * 64 + (chunk[4] - 128)

\* The chunk is the UTF-8 encoding of a scalar value.
IsEncoding(chunk) ==
    /\ IsScalar(Spelled(chunk))
    /\ encode_utf8(Spelled(chunk)) = chunk

\* b is UTF-8: a concatenation of encodings of scalar values.
RECURSIVE IsUtf8(_)
IsUtf8(b) ==
    \/ b = <<>>
    \/ \E w \in 1..4 :
          /\ w <= Len(b)
          /\ IsEncoding(SubSeq(b, 1, w))
          /\ IsUtf8(SubSeq(b, w + 1, Len(b)))

Constructors == {"new", "from_bytes", "from_str"}

\* from_bytes returns Err for bytes that are not UTF-8 (and Ok otherwise),
\* and as_str returns Ok exactly on UTF-8.
C22_ValidationIsUtf8 ==
    /\ calc.fn = "from_bytes" => (calc.res.tag = "Err" <=> ~IsUtf8(calc.args[1]))
    /\ calc.fn = "as_str" => (calc.res.tag = "Ok" <=> IsUtf8(Self))

\* C22: Strings are UTF-8 encoded byte sequences: from_bytes returns Err for
\* any byte sequence that is not valid UTF-8, and every String obtained from
\* new, from_bytes and from_str by any sequence of push_str, push_char,
\* substring, split, replace, repeat, trim, to_uppercase and to_lowercase
\* holds valid UTF-8, so that as_str() returns Ok on it.
C22_EveryStringHoldsUtf8 ==
    /\ (calc.fn = "from_bytes" /\ ~IsUtf8(calc.args[1])) => calc.res.tag = "Err"
    /\ Exists => (IsUtf8(bytes) /\ String_as_str(bytes).tag = "Ok")
    /\ calc.fn = "as_str" => calc.res.tag = "Ok"

\* What holds of the code: the constructors make UTF-8, and every method but
\* substring, called on UTF-8 with UTF-8 arguments, leaves and returns UTF-8;
\* substring cuts at any byte offset.
C22_Utf8KeptUnlessCut ==
    /\ C22_ValidationIsUtf8
    /\ (Exists /\ calc.fn \in Constructors) => IsUtf8(bytes)
    /\ ( /\ calc.fn \notin Constructors \cup {"substring"}
         /\ IsUtf8(Self)
         /\ \A k \in 1..Len(calc.args) : IsUtf8(calc.args[k]) ) =>
          /\ IsUtf8(bytes)
          /\ calc.fn = "split" =>
                \A k \in 1..Len(calc.res.val) : IsUtf8(calc.res.val[k])

\* substring has cut a String of UTF-8 inside a char.
C22_Cut ==
    /\ calc.fn = "substring"
    /\ IsUtf8(Self)
    /\ calc.res.tag = "Ok"
    /\ ~IsUtf8(bytes)

Delimiter == calc.args[1]

\* The parts, in order, with sep between consecutive parts.
RECURSIVE Joined(_, _)
Joined(parts, sep) ==
    IF Len(parts) = 0 THEN <<>>
    ELSE IF Len(parts) = 1 THEN parts[1]
    ELSE parts[1] \o sep \o Joined(Tail(parts), sep)

\* The number of occurrences of d (not empty) that a scan of s from left to
\* right finds when it resumes after the end of each occurrence found.
RECURSIVE Occurrences(_, _)
Occurrences(s, d) ==
    IF ~Occurs(s, d) THEN 0
    ELSE 1 + Occurrences(SubSeq(s, FirstOffset(s, d) + Len(d) + 1, Len(s)), d)

\* C23: for every String s and every non-empty delimiter d, s.split(d)
\* returns k+1 parts, k being the number of non-overlapping occurrences of d
\* found scanning left to right, and the parts joined in order with d
\* between consecutive parts are s byte for byte; so s.replace(d, d) is s and
\* s.replace(d, t) is the parts joined with t. For an empty delimiter split
\* returns the single part s.
C23_SplitPartsRejoin ==
    /\ (Ran("split") /\ Delimiter # <<>>) =>
          /\ Len(calc.res.val) = Occurrences(Self, Delimiter) + 1
          /\ Joined(calc.res.val, Delimiter) = Self
    /\ (Ran("split") /\ Delimiter = <<>>) => calc.res.val = <<Self>>
    /\ (Ran("replace") /\ Delimiter # <<>>) =>
          /\ calc.res.val = Joined(String_split(Self, Delimiter), calc.args[2])
          /\ calc.args[2] = Delimiter => calc.res.val = Self

\* split has cut a String in which occurrences of the delimiter overlap,
\* into an empty first part and a rest.
C23_Witness ==
    /\ Ran("split")
    /\ Len(Delimiter) = 2
    /\ Len(Self) = 3
    /\ OccursAt(Self, Delimiter, 0)
    /\ OccursAt(Self, Delimiter, 1)
    /\ Len(calc.res.val) = 2
    /\ calc.res.val[1] = <<>>
    /\ Len(calc.res.val[2]) = 1

\* replace has put a different String in place of a delimiter that occurs.
C23_Replaced ==
    /\ Ran("replace")
    /\ Occurs(Self, Delimiter)
    /\ Delimiter # <<>>
    /\ calc.args[2] # Delimiter
    /\ calc.res.val # Self

====
